---- MODULE Spec2Model ----
(***************************************************************************)
(* Run-orchestration client of Local Agent Studio (PipelineContext):       *)
(* PipelineProvider's state, run / stop / reset, the streaming read loop   *)
(* of run() and handleEvent, as a state machine.                           *)
(*                                                                         *)
(* Representation of JavaScript values                                     *)
(*   - a string is a TLA+ string; the wire text of the response body is a  *)
(*     sequence of symbols (one per character, a JSON object body being    *)
(*     one symbol that JsonTable resolves);                                *)
(*   - a number is an integer; fractional quantities are scaled by ten     *)
(*     (vramGb 2.1 is 21);                                                 *)
(*   - `undefined` in a number-typed place is UndefinedNum, in a           *)
(*     string-typed place UndefinedStr, in an array-typed place            *)
(*     UndefinedArr; `null` is Null (strings) or NullObj (objects).        *)
(***************************************************************************)
EXTENDS Integers, Sequences, FiniteSets, TLC

\* ------------------------------------------------------------------ bounds
MaxRuns == 2      \* run() invocations explored in Spec
MaxReads == 2     \* chunks delivered by one response body
MaxEvents == 3    \* chunks delivered by the response body in SpecEvents
MaxConfigReads == 1  \* chunks delivered by the response body in SpecConfig
MaxPollReads == 1    \* chunks delivered by the response body in SpecPoll
MaxRecordReads == 2  \* chunks delivered by one response body in SpecRecords

\* --------------------------------------------------------------- JS values
UndefinedNum == -1
UndefinedStr == "<undefined>"
UndefinedArr == <<"<undefined>">>
Null == "<null>"
NullObj == [null |-> TRUE]

\* a ?? b for number-typed and string-typed operands
NullishNum(a, b) == IF a = UndefinedNum THEN b ELSE a
NullishStr(a, b) == IF a = UndefinedStr \/ a = Null THEN b ELSE a

\* ToString of a string-typed value (the + operator with a string operand)
JsToString(v) == IF v = UndefinedStr THEN "undefined" ELSE IF v = Null THEN "null" ELSE v

\* property key of a computed member access [id]
PropertyKey(id) == JsToString(id)

\* ----------------------------------------------------------------- defaults
DEFAULT_AGENT_IDS == {"router-1", "coder-1", "analyzer-1", "validator-1", "synthesizer-1"}

IdleMetrics ==
  [status |-> "idle", tokens |-> 0, tokensPerSec |-> 0, latencyMs |-> 0,
   vramGb |-> 0, output |-> "", provider |-> "simulation"]

defaultMetrics == [id \in DEFAULT_AGENT_IDS |-> IdleMetrics]

DEFAULT_PROVIDER_STATUS ==
  [ollama |-> FALSE, lmstudio |-> FALSE, llamacpp |-> FALSE, transformers |-> FALSE]

\* an object none of whose AgentMetrics properties is set ({...undefined})
EmptyMetrics ==
  [status |-> UndefinedStr, tokens |-> UndefinedNum, tokensPerSec |-> UndefinedNum,
   latencyMs |-> UndefinedNum, vramGb |-> UndefinedNum, output |-> UndefinedStr,
   provider |-> UndefinedStr]

\* the literal agent_token falls back to when the id has no record
TokenFallbackMetrics ==
  [status |-> "running", tokens |-> 0, tokensPerSec |-> 0, latencyMs |-> 0,
   vramGb |-> 0, output |-> "", provider |-> "simulation"]

InitialState ==
  [status |-> "idle",
   prompt |-> "Build a user authentication REST API with JWT tokens",
   agentMetrics |-> defaultMetrics,
   totalTokens |-> 0,
   totalMs |-> 0,
   error |-> Null,
   useRealModels |-> FALSE,
   providerType |-> "simulation",
   providerStatus |-> DEFAULT_PROVIDER_STATUS,
   availableModels |-> <<>>,
   selectedNode |-> NullObj,
   nodeConfigs |-> <<>>,
   activeParallelStage |-> NullObj]

\* ------------------------------------------------------------------- events
\* a parsed event object: every property the handler reads, absent ones undefined
NoEvent ==
  [type |-> UndefinedStr, agentId |-> UndefinedStr, provider |-> UndefinedStr,
   token |-> UndefinedStr, totalTokens |-> UndefinedNum, tokensPerSec |-> UndefinedNum,
   latencyMs |-> UndefinedNum, vramGb |-> UndefinedNum, stageIndex |-> UndefinedNum,
   agentIds |-> UndefinedArr, totalPipelineTokens |-> UndefinedNum,
   totalPipelineMs |-> UndefinedNum, message |-> UndefinedStr]

\* s.agentMetrics[id], undefined when the id has no record
HasMetrics(s, id) == PropertyKey(id) \in DOMAIN s.agentMetrics

\* { ...s.agentMetrics, [id]: m }
WithMetrics(s, id, m) ==
  [k \in (DOMAIN s.agentMetrics) \cup {PropertyKey(id)} |->
     IF k = PropertyKey(id) THEN m ELSE s.agentMetrics[k]]

\* variant: agent_start begins from a fresh record
onAgentStart_fresh(s, event) ==
  [s EXCEPT !.agentMetrics =
     WithMetrics(s, event.agentId,
                 [TokenFallbackMetrics EXCEPT !.provider = NullishStr(event.provider, "simulation")])]

onAgentStart(s, event) ==
  LET id == event.agentId
      prev == IF HasMetrics(s, id) THEN s.agentMetrics[PropertyKey(id)] ELSE EmptyMetrics
  IN [s EXCEPT !.agentMetrics =
        WithMetrics(s, id, [prev EXCEPT !.status = "running",
                                        !.provider = NullishStr(event.provider, "simulation")])]

\* variant: agent_token adds the event's count to the agent's tokens
onAgentToken_sumsTokens(s, event) ==
  LET id == event.agentId
      prev == IF HasMetrics(s, id) THEN s.agentMetrics[PropertyKey(id)] ELSE TokenFallbackMetrics
  IN [s EXCEPT !.agentMetrics =
        WithMetrics(s, id, [prev EXCEPT !.tokens = prev.tokens + NullishNum(event.totalTokens, 0),
                                        !.tokensPerSec = NullishNum(event.tokensPerSec, prev.tokensPerSec),
                                        !.output = JsToString(prev.output) \o JsToString(NullishStr(event.token, ""))])]

\* variant: agent_token for an id without a record is dropped
onAgentToken_noFallback(s, event) ==
  LET id == event.agentId
  IN IF ~HasMetrics(s, id) THEN s
     ELSE LET prev == s.agentMetrics[PropertyKey(id)]
          IN [s EXCEPT !.agentMetrics =
                WithMetrics(s, id, [prev EXCEPT !.tokens = NullishNum(event.totalTokens, prev.tokens),
                                                !.tokensPerSec = NullishNum(event.tokensPerSec, prev.tokensPerSec),
                                                !.output = JsToString(prev.output) \o JsToString(NullishStr(event.token, ""))])]

\* variant: agent_token also keeps a live total in totalTokens
onAgentToken_liveTotals(s, event) ==
  LET id == event.agentId
      prev == IF HasMetrics(s, id) THEN s.agentMetrics[PropertyKey(id)] ELSE TokenFallbackMetrics
  IN [s EXCEPT !.agentMetrics =
        WithMetrics(s, id, [prev EXCEPT !.tokens = NullishNum(event.totalTokens, prev.tokens),
                                        !.tokensPerSec = NullishNum(event.tokensPerSec, prev.tokensPerSec),
                                        !.output = JsToString(prev.output) \o JsToString(NullishStr(event.token, ""))]),
               !.totalTokens = NullishNum(event.totalTokens, s.totalTokens)]

onAgentToken(s, event) ==
  LET id == event.agentId
      prev == IF HasMetrics(s, id) THEN s.agentMetrics[PropertyKey(id)] ELSE TokenFallbackMetrics
  IN [s EXCEPT !.agentMetrics =
        WithMetrics(s, id, [prev EXCEPT !.tokens = NullishNum(event.totalTokens, prev.tokens),
                                        !.tokensPerSec = NullishNum(event.tokensPerSec, prev.tokensPerSec),
                                        !.output = JsToString(prev.output) \o JsToString(NullishStr(event.token, ""))])]

\* variant: agent_vram falls back to a fresh record as agent_token does
onAgentVram_fallback(s, event) ==
  LET id == event.agentId
      prev == IF HasMetrics(s, id) THEN s.agentMetrics[PropertyKey(id)] ELSE TokenFallbackMetrics
  IN [s EXCEPT !.agentMetrics = WithMetrics(s, id, [prev EXCEPT !.vramGb = event.vramGb])]

onAgentVram(s, event) ==
  LET id == event.agentId
  IN IF ~HasMetrics(s, id) THEN s
     ELSE [s EXCEPT !.agentMetrics =
             WithMetrics(s, id, [s.agentMetrics[PropertyKey(id)] EXCEPT !.vramGb = event.vramGb])]

\* variant: agent_done starts the record over, so the output is lost
onAgentDone_dropOutput(s, event) ==
  LET id == event.agentId
  IN IF ~HasMetrics(s, id) THEN s
     ELSE LET prev == s.agentMetrics[PropertyKey(id)]
          IN [s EXCEPT !.agentMetrics =
                WithMetrics(s, id, [prev EXCEPT !.status = "done",
                                                !.tokens = NullishNum(event.totalTokens, prev.tokens),
                                                !.tokensPerSec = NullishNum(event.tokensPerSec, prev.tokensPerSec),
                                                !.latencyMs = NullishNum(event.latencyMs, prev.latencyMs),
                                                !.vramGb = NullishNum(event.vramGb, prev.vramGb),
                                                !.provider = NullishStr(event.provider, prev.provider),
                                                !.output = ""])]

\* variant: agent_done for an id without a record adds an empty finished record
onAgentDone_addRecord(s, event) ==
  LET id == event.agentId
  IN IF ~HasMetrics(s, id)
       THEN [s EXCEPT !.agentMetrics = WithMetrics(s, id, [IdleMetrics EXCEPT !.status = "done"])]
     ELSE LET prev == s.agentMetrics[PropertyKey(id)]
          IN [s EXCEPT !.agentMetrics =
                WithMetrics(s, id, [prev EXCEPT !.status = "done",
                                                !.tokens = NullishNum(event.totalTokens, prev.tokens),
                                                !.tokensPerSec = NullishNum(event.tokensPerSec, prev.tokensPerSec),
                                                !.latencyMs = NullishNum(event.latencyMs, prev.latencyMs),
                                                !.vramGb = NullishNum(event.vramGb, prev.vramGb),
                                                !.provider = NullishStr(event.provider, prev.provider)])]

\* variant: agent_done is applied without looking for an existing record
onAgentDone_noGuard(s, event) ==
  LET id == event.agentId
      prev == IF HasMetrics(s, id) THEN s.agentMetrics[PropertyKey(id)] ELSE TokenFallbackMetrics
  IN [s EXCEPT !.agentMetrics =
        WithMetrics(s, id, [prev EXCEPT !.status = "done",
                                        !.tokens = NullishNum(event.totalTokens, prev.tokens),
                                        !.tokensPerSec = NullishNum(event.tokensPerSec, prev.tokensPerSec),
                                        !.latencyMs = NullishNum(event.latencyMs, prev.latencyMs),
                                        !.vramGb = NullishNum(event.vramGb, prev.vramGb),
                                        !.provider = NullishStr(event.provider, prev.provider)])]

onAgentDone(s, event) ==
  LET id == event.agentId
  IN IF ~HasMetrics(s, id) THEN s
     ELSE LET prev == s.agentMetrics[PropertyKey(id)]
          IN [s EXCEPT !.agentMetrics =
                WithMetrics(s, id, [prev EXCEPT !.status = "done",
                                                !.tokens = NullishNum(event.totalTokens, prev.tokens),
                                                !.tokensPerSec = NullishNum(event.tokensPerSec, prev.tokensPerSec),
                                                !.latencyMs = NullishNum(event.latencyMs, prev.latencyMs),
                                                !.vramGb = NullishNum(event.vramGb, prev.vramGb),
                                                !.provider = NullishStr(event.provider, prev.provider)])]

onStageParallel(s, event) ==
  [s EXCEPT !.activeParallelStage = [stageIndex |-> event.stageIndex, agentIds |-> event.agentIds]]

\* variant: pipeline_done leaves the announced parallel stage in place
onPipelineDone_keepStage(s, event) ==
  [s EXCEPT !.status = "done",
            !.totalTokens = NullishNum(event.totalPipelineTokens, s.totalTokens),
            !.totalMs = NullishNum(event.totalPipelineMs, s.totalMs)]

\* variant: pipeline_done only sets the status
onPipelineDone_statusOnly(s, event) == [s EXCEPT !.status = "done"]

onPipelineDone(s, event) ==
  [s EXCEPT !.status = "done",
            !.activeParallelStage = NullObj,
            !.totalTokens = NullishNum(event.totalPipelineTokens, s.totalTokens),
            !.totalMs = NullishNum(event.totalPipelineMs, s.totalMs)]

\* variant: pipeline_error leaves the announced parallel stage in place
onPipelineError_keepStage(s, event) ==
  [s EXCEPT !.status = "stopped",
            !.error = NullishStr(event.message, "Unknown error")]

onPipelineError(s, event) ==
  [s EXCEPT !.status = "stopped",
            !.activeParallelStage = NullObj,
            !.error = NullishStr(event.message, "Unknown error")]

\* variant: an event of an unknown type fails the pipeline
handleEvent_rejectUnknown(s, event) ==
  CASE event.type = "agent_start" -> onAgentStart(s, event)
    [] event.type = "agent_token" -> onAgentToken(s, event)
    [] event.type = "agent_vram" -> onAgentVram(s, event)
    [] event.type = "agent_done" -> onAgentDone(s, event)
    [] event.type = "stage_parallel" -> onStageParallel(s, event)
    [] event.type = "pipeline_done" -> onPipelineDone(s, event)
    [] event.type = "pipeline_error" -> onPipelineError(s, event)
    [] OTHER -> [s EXCEPT !.status = "stopped", !.error = "Unknown event"]

\* handleEvent: the state after the updater the event enqueues has been applied
handleEvent(s, event) ==
  CASE event.type = "agent_start" -> onAgentStart(s, event)
    [] event.type = "agent_token" -> onAgentToken(s, event)
    [] event.type = "agent_vram" -> onAgentVram(s, event)
    [] event.type = "agent_done" -> onAgentDone(s, event)
    [] event.type = "stage_parallel" -> onStageParallel(s, event)
    [] event.type = "pipeline_done" -> onPipelineDone(s, event)
    [] event.type = "pipeline_error" -> onPipelineError(s, event)
    [] OTHER -> s

\* ---------------------------------------------------------------- wire text
LF == "\n"
DataPrefix == <<"d", "a", "t", "a", ":", " ">>
Whitespace == {" ", "\r", "\t", LF}

\* the JSON object bodies the backend is taken to send, by symbol
JsonTable ==
  [start_r |-> [NoEvent EXCEPT !.type = "agent_start", !.agentId = "router-1", !.provider = "ollama"],
   start_r0 |-> [NoEvent EXCEPT !.type = "agent_start", !.agentId = "router-1"],
   start_c |-> [NoEvent EXCEPT !.type = "agent_start", !.agentId = "custom-1"],
   tok_r   |-> [NoEvent EXCEPT !.type = "agent_token", !.agentId = "router-1", !.token = "Hi",
                               !.totalTokens = 1, !.tokensPerSec = 5],
   tok_r2  |-> [NoEvent EXCEPT !.type = "agent_token", !.agentId = "router-1", !.token = "!"],
   tok_c   |-> [NoEvent EXCEPT !.type = "agent_token", !.agentId = "custom-1", !.token = "Yo",
                               !.totalTokens = 2, !.tokensPerSec = 7],
   tok_c0  |-> [NoEvent EXCEPT !.type = "agent_token", !.agentId = "custom-1", !.token = "?"],
   done_r  |-> [NoEvent EXCEPT !.type = "agent_done", !.agentId = "router-1", !.totalTokens = 1,
                               !.tokensPerSec = 5, !.latencyMs = 120, !.vramGb = 21],
   done_c  |-> [NoEvent EXCEPT !.type = "agent_done", !.agentId = "custom-1", !.totalTokens = 2,
                               !.latencyMs = 80],
   done_rp |-> [NoEvent EXCEPT !.type = "agent_done", !.agentId = "router-1", !.tokensPerSec = 9,
                               !.provider = "ollama"],
   vram_r  |-> [NoEvent EXCEPT !.type = "agent_vram", !.agentId = "router-1", !.vramGb = 35],
   vram_c  |-> [NoEvent EXCEPT !.type = "agent_vram", !.agentId = "custom-1", !.vramGb = 35],
   vram0   |-> [NoEvent EXCEPT !.type = "agent_vram", !.agentId = "router-1"],
   stage   |-> [NoEvent EXCEPT !.type = "stage_parallel", !.stageIndex = 1,
                               !.agentIds = <<"coder-1", "analyzer-1">>],
   pdone   |-> [NoEvent EXCEPT !.type = "pipeline_done", !.totalPipelineTokens = 1,
                               !.totalPipelineMs = 120],
   perr    |-> [NoEvent EXCEPT !.type = "pipeline_error", !.message = "model unavailable"],
   perr0   |-> [NoEvent EXCEPT !.type = "pipeline_error"],
   ping    |-> [NoEvent EXCEPT !.type = "heartbeat"]]

\* JSON.parse(raw): the value, or a SyntaxError
JsonParse(raw) ==
  IF Len(raw) = 3 /\ raw[1] = "{" /\ raw[3] = "}" /\ raw[2] \in DOMAIN JsonTable
    THEN [ok |-> TRUE, value |-> JsonTable[raw[2]]]
    ELSE [ok |-> FALSE, value |-> NoEvent]

\* text.split("\n")
RECURSIVE Split(_)
Split(text) ==
  IF \A i \in 1..Len(text) : text[i] # LF
    THEN <<text>>
    ELSE LET i == CHOOSE j \in 1..Len(text) :
                    text[j] = LF /\ \A k \in 1..(j - 1) : text[k] # LF
         IN <<SubSeq(text, 1, i - 1)>> \o Split(SubSeq(text, i + 1, Len(text)))

\* line.startsWith(prefix)
StartsWith(line, prefix) ==
  Len(line) >= Len(prefix) /\ SubSeq(line, 1, Len(prefix)) = prefix

\* line.slice(n)
Slice(line, n) == SubSeq(line, n + 1, Len(line))

\* text.trim()
RECURSIVE Trim(_)
Trim(text) ==
  IF text = <<>> THEN text
  ELSE IF text[1] \in Whitespace THEN Trim(Tail(text))
  ELSE IF text[Len(text)] \in Whitespace THEN Trim(SubSeq(text, 1, Len(text) - 1))
  ELSE text

\* the events one line hands to handleEvent: none or one
LineEvents(line) ==
  IF ~StartsWith(line, DataPrefix) THEN <<>>
  ELSE LET raw == Trim(Slice(line, 6))
       IN IF raw = <<>> THEN <<>>
          ELSE IF JsonParse(raw).ok THEN <<JsonParse(raw).value>> ELSE <<>>

\* for (const line of lines) ... handleEvent(JSON.parse(raw))
RECURSIVE ApplyLines(_, _)
ApplyLines(s, lines) ==
  IF lines = <<>> THEN s
  ELSE LET evs == LineEvents(Head(lines))
       IN ApplyLines(IF evs = <<>> THEN s ELSE handleEvent(s, evs[1]), Tail(lines))

\* variant: the text after the last newline is not kept for the next read
ReadLines_dropPartial(buf, chunk) ==
  LET parts == Split(buf \o chunk)
  IN [lines |-> SubSeq(parts, 1, Len(parts) - 1), buffer |-> <<>>]

\* one iteration of the read loop on a chunk: the new buffer and the complete lines
ReadLines(buf, chunk) ==
  LET parts == Split(buf \o chunk)
  IN [lines |-> SubSeq(parts, 1, Len(parts) - 1), buffer |-> parts[Len(parts)]]

\* variant: when the stream ends the text left in the buffer is parsed as a last line
breakOnDone_flush(s, buf) == ApplyLines(s, <<buf>>)

\* if (done) break: the loop ends and the text left in the buffer is not parsed
breakOnDone(s, buf) == s

\* variant: the catch reports every rejection, an AbortError included
catchError_noAbortCheck(s, name, message) ==
  [s EXCEPT !.status = "stopped",
            !.error = "Connection failed: " \o message \o ". Is the backend running?"]

\* variant: the catch swallows every rejection
catchError_silent(s, name, message) == s

\* catch (err): an AbortError is swallowed, anything else is a connection failure
catchError(s, name, message) ==
  IF name = "AbortError" THEN s
  ELSE [s EXCEPT !.status = "stopped",
                 !.error = "Connection failed: " \o message \o ". Is the backend running?"]

\* variant: run() keeps the agent records of the previous run
runSetState_keepMetrics(s) ==
  [s EXCEPT !.status = "running", !.totalTokens = 0, !.totalMs = 0, !.error = Null]

\* variant: run() resets the metrics and totals but keeps the previous error
runSetState_keepError(s) ==
  [s EXCEPT !.status = "running", !.agentMetrics = defaultMetrics,
            !.totalTokens = 0, !.totalMs = 0]

\* variant: run() marks the pipeline running but keeps the previous run's metrics and error
runSetState_statusOnly(s) == [s EXCEPT !.status = "running"]

\* the state updaters of run, stop and reset
runSetState(s) ==
  [s EXCEPT !.status = "running", !.agentMetrics = defaultMetrics,
            !.totalTokens = 0, !.totalMs = 0, !.error = Null]

\* variant: stop() also removes the announced parallel stage
stopSetState_clearStage(s) == [s EXCEPT !.status = "stopped", !.activeParallelStage = NullObj]

\* variant: stop() also clears the error
stopSetState_clearError(s) == [s EXCEPT !.status = "stopped", !.error = Null]

stopSetState(s) == [s EXCEPT !.status = "stopped"]

\* variant: reset() leaves the totals of the last run in place
resetSetState_keepTotals(s) ==
  [s EXCEPT !.status = "idle", !.agentMetrics = defaultMetrics, !.error = Null]

\* variant: reset() on a running pipeline only stops it; a second call clears it
resetSetState_stopFirst(s) ==
  IF s.status = "running" THEN [s EXCEPT !.status = "stopped"]
  ELSE [s EXCEPT !.status = "idle", !.agentMetrics = defaultMetrics,
                 !.totalTokens = 0, !.totalMs = 0, !.error = Null]

resetSetState(s) ==
  [s EXCEPT !.status = "idle", !.agentMetrics = defaultMetrics,
            !.totalTokens = 0, !.totalMs = 0, !.error = Null]

\* ------------------------------------------------------------ configuration
UndefinedObj == [undefined |-> TRUE]

\* AGENT_TYPE_DEFAULTS (temperature scaled by ten; no default carries `tools`)
AGENT_TYPE_DEFAULTS ==
  [router |->
     [provider |-> "simulation", modelId |-> "Qwen2.5-3B-Instruct",
      systemPrompt |-> "You are a task routing system. Analyze the user request briefly. Classify the task type, estimate complexity, and state which specialist agents (Coder, Analyzer) should handle it and why. Be concise (3-5 lines).",
      maxTokens |-> 256, temperature |-> 3, tools |-> UndefinedObj],
   coder |->
     [provider |-> "simulation", modelId |-> "Qwen2.5-Coder-7B",
      systemPrompt |-> "You are an expert programmer. Generate clean, working code for the task. Include type hints and brief comments. Keep the implementation concise.",
      maxTokens |-> 1024, temperature |-> 1, tools |-> UndefinedObj],
   analyzer |->
     [provider |-> "simulation", modelId |-> "Gemma-3-4B-IT",
      systemPrompt |-> "You are a technical analyst. Review the task and any code provided. Identify security issues, performance concerns, and give brief recommendations.",
      maxTokens |-> 512, temperature |-> 5, tools |-> UndefinedObj],
   validator |->
     [provider |-> "simulation", modelId |-> "Phi-4-mini-4B",
      systemPrompt |-> "You are a code quality expert. Score the provided code out of 100 for quality and security. List top 3 issues. Give a final verdict: APPROVED or NEEDS_REVISION.",
      maxTokens |-> 512, temperature |-> 2, tools |-> UndefinedObj],
   synthesizer |->
     [provider |-> "simulation", modelId |-> "Llama-3.1-8B-Instruct",
      systemPrompt |-> "You are a technical writer. Synthesize the outputs from all agents into a clear final summary. Include: implementation overview, quality score, top recommendations. Be concise.",
      maxTokens |-> 768, temperature |-> 4, tools |-> UndefinedObj],
   input |->
     [provider |-> "simulation", modelId |-> "user-query", systemPrompt |-> "",
      maxTokens |-> 0, temperature |-> 0, tools |-> UndefinedObj],
   output |->
     [provider |-> "simulation", modelId |-> "result-stream", systemPrompt |-> "",
      maxTokens |-> 0, temperature |-> 0, tools |-> UndefinedObj],
   custom |->
     [provider |-> "simulation", modelId |-> "", systemPrompt |-> "",
      maxTokens |-> 512, temperature |-> 7, tools |-> UndefinedObj]]

NODE_ID_TO_AGENT_TYPE ==
  [x \in {"input-1", "router-1", "coder-1", "analyzer-1", "validator-1", "synthesizer-1"} |->
     CASE x = "input-1" -> "input"
       [] x = "router-1" -> "router"
       [] x = "coder-1" -> "coder"
       [] x = "analyzer-1" -> "analyzer"
       [] x = "validator-1" -> "validator"
       [] x = "synthesizer-1" -> "synthesizer"]

\* getDefaultConfig(nodeId) as setNodeConfig calls it, without an agentType
getDefaultConfig(nodeId) ==
  AGENT_TYPE_DEFAULTS[IF nodeId \in DOMAIN NODE_ID_TO_AGENT_TYPE
                        THEN NODE_ID_TO_AGENT_TYPE[nodeId] ELSE "custom"]

\* a Partial<NodeConfig> that sets nothing
NoPatch ==
  [provider |-> UndefinedStr, modelId |-> UndefinedStr, systemPrompt |-> UndefinedStr,
   maxTokens |-> UndefinedNum, temperature |-> UndefinedNum, tools |-> UndefinedObj]

\* { ...base, ...over }: the properties `over` has replace those of `base`
Spread(base, over) ==
  [provider |-> IF over.provider = UndefinedStr THEN base.provider ELSE over.provider,
   modelId |-> IF over.modelId = UndefinedStr THEN base.modelId ELSE over.modelId,
   systemPrompt |-> IF over.systemPrompt = UndefinedStr THEN base.systemPrompt ELSE over.systemPrompt,
   maxTokens |-> IF over.maxTokens = UndefinedNum THEN base.maxTokens ELSE over.maxTokens,
   temperature |-> IF over.temperature = UndefinedNum THEN base.temperature ELSE over.temperature,
   tools |-> IF over.tools = UndefinedObj THEN base.tools ELSE over.tools]

\* the state updaters of the configuration setters
setPromptState(s, p) == [s EXCEPT !.prompt = p]
setUseRealModelsState(s, v) == [s EXCEPT !.useRealModels = v]
setProviderTypeState(s, p) == [s EXCEPT !.providerType = p]
setSelectedNodeState(s, info) == [s EXCEPT !.selectedNode = info]

\* variant: the new entry replaces the whole map instead of being merged into it
setNodeConfigState_replaceAll(s, nodeId, patch) ==
  [s EXCEPT !.nodeConfigs =
     [k \in {nodeId} |->
        Spread(Spread(getDefaultConfig(nodeId),
                      IF nodeId \in DOMAIN s.nodeConfigs THEN s.nodeConfigs[nodeId] ELSE NoPatch),
               patch)]]

setNodeConfigState(s, nodeId, patch) ==
  [s EXCEPT !.nodeConfigs =
     [k \in (DOMAIN s.nodeConfigs) \cup {nodeId} |->
        IF k = nodeId
          THEN Spread(Spread(getDefaultConfig(nodeId),
                             IF nodeId \in DOMAIN s.nodeConfigs THEN s.nodeConfigs[nodeId] ELSE NoPatch),
                      patch)
          ELSE s.nodeConfigs[k]]]

resetNodeConfigState(s, nodeId) ==
  [s EXCEPT !.nodeConfigs = [k \in (DOMAIN s.nodeConfigs) \ {nodeId} |-> s.nodeConfigs[k]]]

\* the configuration values the body of run() reads from the `state` of the render
\* that created the callback
ConfigOf(s) ==
  [prompt |-> s.prompt, useRealModels |-> s.useRealModels,
   providerType |-> s.providerType, nodeConfigs |-> s.nodeConfigs]

\* variant: the dependency list of run omits state.nodeConfigs
RunDepsChanged_noNodeConfigs(c, s) ==
  c.prompt # s.prompt \/ c.useRealModels # s.useRealModels \/ c.providerType # s.providerType

\* the dependency list of useCallback(run): whether a render creates a new callback
RunDepsChanged(c, s) ==
  \/ c.prompt # s.prompt
  \/ c.useRealModels # s.useRealModels
  \/ c.providerType # s.providerType
  \/ c.nodeConfigs # s.nodeConfigs

\* the render that follows an update: run is recreated when a dependency changed
Rerender(c, s) == IF RunDepsChanged(c, s) THEN ConfigOf(s) ELSE c

\* value || undefined
OrUndefined(v) == IF v = "" THEN UndefinedStr ELSE v

\* the body of POST /api/run (agent_configs keyed by agent id, array order left out)
buildRequest(c) ==
  LET agentConfigs ==
        [agentId \in DOMAIN c.nodeConfigs |->
           LET cfg == c.nodeConfigs[agentId]
               activeTools == IF cfg.tools # UndefinedObj /\ cfg.tools.web_search
                                THEN <<"web_search">> ELSE <<>>
           IN [agent_id |-> agentId,
               provider |-> [type |-> cfg.provider, model_id |-> OrUndefined(cfg.modelId)],
               system_prompt |-> OrUndefined(cfg.systemPrompt),
               max_tokens |-> cfg.maxTokens,
               temperature |-> cfg.temperature,
               tools |-> IF Len(activeTools) > 0 THEN activeTools ELSE UndefinedArr]]
  IN [prompt |-> c.prompt,
      use_real_models |-> c.useRealModels,
      default_provider |-> [type |-> c.providerType],
      agent_configs |-> IF DOMAIN c.nodeConfigs # {} THEN agentConfigs ELSE UndefinedObj]

\* no request issued yet
NoRequest == [none |-> TRUE]

\* inputs of the setters
Prompts == {"Build a user authentication REST API with JWT tokens", "Summarise the release notes"}
ProviderTypes == {"simulation", "ollama"}
SelectedNodes == {NullObj, [id |-> "custom-1", label |-> "Custom", agentType |-> "custom"]}
NodeIds == {"router-1", "custom-1"}
Patches == {[NoPatch EXCEPT !.maxTokens = 64, !.tools = [web_search |-> TRUE]]}

\* ------------------------------------------------------------ response bodies
\* one "data: <json>\n\n" record
Frame(k) == DataPrefix \o <<"{", k, "}">> \o <<LF, LF>>

\* chunks a reader.read() of Spec may deliver: one whole record each
CoreChunks == {Frame("tok_r"), Frame("stage"), Frame("pdone"), Frame("perr")}

\* records that only differ from another one in which agent fields they carry
PartialAgentKeys == {"tok_c0", "done_rp"}

\* chunks a reader.read() of SpecEvents may deliver: one record of every kind
EventChunks == {Frame(k) : k \in DOMAIN JsonTable \ PartialAgentKeys}

\* chunks a reader.read() of SpecAgents may deliver: the agent_start, agent_token,
\* agent_done and agent_vram records of a default agent and of another one, with
\* all or some of their fields
AgentChunks ==
  {Frame(k) : k \in {"start_r", "start_c", "tok_r", "tok_c", "tok_c0",
                     "done_r", "done_c", "done_rp", "vram_r"}}

\* chunks a reader.read() of SpecPoll may deliver: a token and a pipeline error
PollChunks == {Frame("tok_r"), Frame("perr")}

\* a response body carrying one agent's run from start to pipeline_done
ScenarioBody == Frame("start_r0") \o Frame("tok_r") \o Frame("done_r") \o Frame("pdone")

\* lines the read loop drops: an SSE comment, a field other than data, a data
\* line cut off inside its JSON, a record of an unknown type, an empty data line
JunkLines ==
  <<":", "k", LF>>
    \o <<"i", "d", ":", " ", "7", LF>>
    \o DataPrefix \o <<"{", "tok_r", LF>>
    \o Frame("ping")
    \o DataPrefix \o <<" ", "\r", LF>>

\* a response body with dropped lines between two valid records
JunkBody == Frame("start_r") \o JunkLines \o Frame("tok_r")

\* a response body that ends inside its last record: the line of the
\* pipeline_done record has no newline
CutBody == Frame("tok_r") \o DataPrefix \o <<"{", "pdone", "}">>

\* the response bodies SpecStream serves, cut into chunks at any positions
Bodies == {ScenarioBody, JunkBody, CutBody}

\* p is a prefix of t
IsPrefix(p, t) == Len(p) <= Len(t) /\ SubSeq(t, 1, Len(p)) = p

\* chunks a reader.read() of SpecRecords may deliver: a token that creates the
\* record of an agent outside the defaults, and the completion of a default one
RecordChunks == {Frame("tok_c"), Frame("done_r")}

\* response.status values of POST /api/run
HttpStatuses == {200, 500}

\* response.ok
ResponseOk(httpStatus) == httpStatus >= 200 /\ httpStatus <= 299

\* ---------------------------------------------------------------- discovery
ProviderNames == {"ollama", "lmstudio", "llamacpp", "transformers"}

\* how a fetch of the poll settles: rejected (backend offline), aborted by
\* AbortSignal.timeout, or resolved with a response
PollRejected == [settle |-> "rejected"]
PollTimedOut == [settle |-> "timeout"]
PollResponse(httpStatus, body) == [settle |-> "response", status |-> httpStatus, body |-> body]

\* a response body res.json() cannot parse
BadJson == [syntaxError |-> TRUE]

\* bodies of GET /api/providers: not JSON, null, no providers, some, all four
ProviderBodies ==
  {BadJson, NullObj,
   [providers |-> UndefinedObj],
   [providers |-> [ollama |-> TRUE]],
   [providers |-> [ollama |-> TRUE, lmstudio |-> TRUE, llamacpp |-> FALSE, transformers |-> TRUE]]}

\* bodies of GET /api/models: not JSON, null, no models, one provider's models
ModelBodies ==
  {BadJson, NullObj, [models |-> UndefinedObj], [models |-> [ollama |-> <<"llama3">>]]}

ProviderOutcomes ==
  {PollRejected, PollTimedOut, PollResponse(500, NullObj)}
    \cup {PollResponse(200, b) : b \in ProviderBodies}

ModelOutcomes ==
  {PollRejected, PollTimedOut, PollResponse(500, NullObj)}
    \cup {PollResponse(200, b) : b \in ModelBodies}

\* the request resolved with an ok response
OkResponse(o) == o.settle = "response" /\ ResponseOk(o.status)

\* Promise.all rejects, or res.json() of an ok response throws: the catch is entered
PollThrows(prov, mod) ==
  \/ prov.settle # "response"
  \/ mod.settle # "response"
  \/ (ResponseOk(prov.status) /\ prov.body = BadJson)
  \/ (ResponseOk(mod.status) /\ mod.body = BadJson)

\* res.ok ? await res.json() : null
PollData(o) == IF ResponseOk(o.status) THEN o.body ELSE NullObj

\* provData.providers?.[name] ?? false
ProviderFlag(provData, name) ==
  IF provData.providers # UndefinedObj /\ name \in DOMAIN provData.providers
    THEN provData.providers[name] ELSE FALSE

\* variant: a poll without provider data marks every provider unreachable, one
\* without model data empties the model list
pollSetState_wipeOnFailure(s, provData, modData) ==
  [s EXCEPT !.providerStatus =
              IF provData # NullObj
                THEN [name \in ProviderNames |-> ProviderFlag(provData, name)]
                ELSE DEFAULT_PROVIDER_STATUS,
            !.availableModels =
              IF modData # NullObj /\ modData.models # UndefinedObj THEN modData.models ELSE <<>>]

\* variant: a poll result also clears the pipeline's error
pollSetState_clearError(s, provData, modData) ==
  [s EXCEPT !.providerStatus =
              IF provData # NullObj
                THEN [name \in ProviderNames |-> ProviderFlag(provData, name)] ELSE @,
            !.availableModels =
              IF modData # NullObj
                THEN (IF modData.models # UndefinedObj THEN modData.models ELSE <<>>) ELSE @,
            !.error = Null]

\* the updater of fetchStatus
pollSetState(s, provData, modData) ==
  [s EXCEPT !.providerStatus =
              IF provData # NullObj
                THEN [name \in ProviderNames |-> ProviderFlag(provData, name)] ELSE @,
            !.availableModels =
              IF modData # NullObj
                THEN (IF modData.models # UndefinedObj THEN modData.models ELSE <<>>) ELSE @]

\* how one request of a poll ended
PollClass(o) ==
  IF o.settle # "response" THEN o.settle
  ELSE IF ~ResponseOk(o.status) THEN "not ok"
  ELSE IF o.body = BadJson THEN "bad json" ELSE "ok"

NoPoll == <<"none", "none">>

\* -------------------------------------------------------------------- state
VARIABLES
  state,       \* the PipelineState held by useState
  abortRef,    \* abortRef.current: the run whose AbortController it holds, 0 for null
  readerRef,   \* readerRef.current: the run whose reader it holds, 0 for null
  runCount,    \* run() invocations so far; invocation i owns transport i
  pc,          \* where invocation i of run() is: "none" (not called), "fetch", "read",
               \* or returned: "closed" (loop left), "failed" (catch), "abandoned" (AbortError)
  aborted,     \* whether the signal of invocation i's AbortController is aborted
  cancelled,   \* whether invocation i's reader was cancelled while readable
  buffer,      \* the local `buffer` of invocation i
  nread,       \* chunks invocation i has read
  tokensSeen,  \* history: per agent id, the tokens of its agent_token events of this run
  received,    \* history: the text invocation i has read, where the specification records it
  closure,     \* the configuration captured by the current `run` callback
  request,     \* the body of the request invocation i sent
  lastPoll     \* history: how the two requests of the latest discovery poll ended

vars ==
  <<state, abortRef, readerRef, runCount, pc, aborted, cancelled, buffer, nread, tokensSeen,
    received, closure, request, lastPoll>>

Runs == 1..MaxRuns

Init ==
  /\ state = InitialState
  /\ abortRef = 0
  /\ readerRef = 0
  /\ runCount = 0
  /\ pc = [i \in Runs |-> "none"]
  /\ aborted = [i \in Runs |-> FALSE]
  /\ cancelled = [i \in Runs |-> FALSE]
  /\ buffer = [i \in Runs |-> <<>>]
  /\ nread = [i \in Runs |-> 0]
  /\ tokensSeen = <<>>
  /\ received = [i \in Runs |-> <<>>]
  /\ closure = ConfigOf(InitialState)
  /\ request = [i \in Runs |-> NoRequest]
  /\ lastPoll = NoPoll

\* abortRef.current?.abort() as run, stop and reset each call it
AbortOf(ab, ref) == IF ref = 0 THEN ab ELSE [ab EXCEPT ![ref] = TRUE]

\* variant: run() creates the new controller without aborting the previous one
runAbortPrevious_skip(ab, ref) == ab

runAbortPrevious(ab, ref) == AbortOf(ab, ref)

\* variant: stop() marks the pipeline stopped without aborting the request
stopAbort_skip(ab, ref) == ab

stopAbort(ab, ref) == AbortOf(ab, ref)

\* variant: reset() clears the state without aborting the request
resetAbort_skip(ab, ref) == ab

resetAbort(ab, ref) == AbortOf(ab, ref)

\* readerRef.current?.cancel(): closes the stream if it is still readable
\* (ab is the abort state after the preceding abort() call)
CancelOf(cn, ref, ab) ==
  IF ref # 0 /\ pc[ref] = "read" /\ ~ab[ref] THEN [cn EXCEPT ![ref] = TRUE] ELSE cn

\* history of agent_token tokens, per agent id
RECURSIVE TokensAfter(_, _)
TokensAfter(log, lines) ==
  IF lines = <<>> THEN log
  ELSE LET evs == LineEvents(Head(lines))
           e == evs[1]
           k == PropertyKey(e.agentId)
           old == IF k \in DOMAIN log THEN log[k] ELSE ""
           next == IF evs # <<>> /\ e.type = "agent_token"
                     THEN [x \in (DOMAIN log) \cup {k} |->
                             IF x = k THEN old \o JsToString(NullishStr(e.token, "")) ELSE log[x]]
                     ELSE log
       IN TokensAfter(IF evs = <<>> THEN log ELSE next, Tail(lines))

\* ------------------------------------------------------------------ actions
\* Every action is one task of the event loop together with the microtasks it
\* releases: a call of run, stop or reset up to its first await, or the
\* continuation of one invocation of run() after its pending fetch or read has
\* settled.  The platform decides how a pending promise settles: once a
\* controller is aborted its fetch and its body stream reject with an AbortError
\* and deliver nothing more, so a response, a chunk, a close or a network error
\* can only reach an invocation whose signal is not aborted.
\* run(): abort the previous controller, create a new one, reset the run state,
\* issue the request
run ==
  /\ runCount < MaxRuns
  /\ runCount' = runCount + 1
  /\ aborted' = runAbortPrevious(aborted, abortRef)
  /\ abortRef' = runCount + 1
  /\ state' = runSetState(state)
  /\ pc' = [pc EXCEPT ![runCount + 1] = "fetch"]
  /\ tokensSeen' = <<>>
  /\ request' = [request EXCEPT ![runCount + 1] = buildRequest(closure)]
  /\ UNCHANGED <<readerRef, cancelled, buffer, nread, received, closure, lastPoll>>

\* stop()
stop ==
  /\ aborted' = stopAbort(aborted, abortRef)
  /\ cancelled' = CancelOf(cancelled, readerRef, stopAbort(aborted, abortRef))
  /\ state' = stopSetState(state)
  /\ UNCHANGED <<abortRef, readerRef, runCount, pc, buffer, nread, tokensSeen, received, closure, request, lastPoll>>

\* reset()
reset ==
  /\ aborted' = resetAbort(aborted, abortRef)
  /\ cancelled' = CancelOf(cancelled, readerRef, resetAbort(aborted, abortRef))
  /\ state' = resetSetState(state)
  /\ tokensSeen' = <<>>
  /\ UNCHANGED <<abortRef, readerRef, runCount, pc, buffer, nread, received, closure, request, lastPoll>>

\* await fetch(...) resolves with a response: not ok throws, ok attaches the reader
FetchResponse(i, httpStatus) ==
  /\ pc[i] = "fetch" /\ ~aborted[i]
  /\ IF ResponseOk(httpStatus)
       THEN /\ readerRef' = i
            /\ pc' = [pc EXCEPT ![i] = "read"]
            /\ buffer' = [buffer EXCEPT ![i] = <<>>]
            /\ state' = state
       ELSE /\ state' = catchError(state, "Error", "Backend error: " \o ToString(httpStatus))
            /\ pc' = [pc EXCEPT ![i] = "failed"]
            /\ UNCHANGED <<readerRef, buffer>>
  /\ UNCHANGED <<abortRef, runCount, aborted, cancelled, nread, tokensSeen, received, closure, request, lastPoll>>

\* err.message of the TypeError a rejected fetch() and a rejected reader.read()
\* carry: the text is the platform's, the code passes it on as it is (Chromium
\* says "Failed to fetch" and "network error", WebKit "Load failed" for both)
FetchRejectMessages == {"Failed to fetch", "Load failed"}
ReadRejectMessages == {"network error", "Load failed"}

\* await fetch(...) rejects: the connection could not be established
FetchReject(i) ==
  /\ pc[i] = "fetch" /\ ~aborted[i]
  /\ \E msg \in FetchRejectMessages : state' = catchError(state, "TypeError", msg)
  /\ pc' = [pc EXCEPT ![i] = "failed"]
  /\ UNCHANGED <<abortRef, readerRef, runCount, aborted, cancelled, buffer, nread, tokensSeen,
               received, closure, request, lastPoll>>

\* await reader.read() resolves with a chunk: one iteration of the read loop
ReadChunk(i, chunk, max) ==
  /\ pc[i] = "read" /\ ~aborted[i] /\ ~cancelled[i]
  /\ nread[i] < max
  /\ LET r == ReadLines(buffer[i], chunk)
     IN /\ buffer' = [buffer EXCEPT ![i] = r.buffer]
        /\ state' = ApplyLines(state, r.lines)
        /\ tokensSeen' = TokensAfter(tokensSeen, r.lines)
  /\ nread' = [nread EXCEPT ![i] = nread[i] + 1]
  /\ UNCHANGED <<abortRef, readerRef, runCount, pc, aborted, cancelled, closure, request, lastPoll>>

\* a read whose text is not recorded
Read(i, chunk, max) == ReadChunk(i, chunk, max) /\ UNCHANGED received

\* a read whose text is appended to the history of the body
ReadTraced(i, chunk, max) ==
  ReadChunk(i, chunk, max) /\ received' = [received EXCEPT ![i] = @ \o chunk]

\* await reader.read() resolves with done: the loop breaks and run() returns
ReadDone(i) ==
  /\ pc[i] = "read" /\ ~aborted[i]
  /\ pc' = [pc EXCEPT ![i] = "closed"]
  /\ state' = breakOnDone(state, buffer[i])
  /\ UNCHANGED <<abortRef, readerRef, runCount, aborted, cancelled, buffer, nread, tokensSeen,
               received, closure, request, lastPoll>>

\* await reader.read() rejects: the connection broke mid-stream
ReadError(i) ==
  /\ pc[i] = "read" /\ ~aborted[i] /\ ~cancelled[i]
  /\ \E msg \in ReadRejectMessages : state' = catchError(state, "TypeError", msg)
  /\ pc' = [pc EXCEPT ![i] = "failed"]
  /\ UNCHANGED <<abortRef, readerRef, runCount, aborted, cancelled, buffer, nread, tokensSeen,
               received, closure, request, lastPoll>>

\* the pending fetch or read of an aborted controller rejects with an AbortError
AbortSettle(i) ==
  /\ pc[i] \in {"fetch", "read"} /\ aborted[i]
  /\ state' = catchError(state, "AbortError", "The operation was aborted.")
  /\ pc' = [pc EXCEPT ![i] = "abandoned"]
  /\ UNCHANGED <<abortRef, readerRef, runCount, aborted, cancelled, buffer, nread, tokensSeen,
               received, closure, request, lastPoll>>

Next ==
  \/ run
  \/ stop
  \/ reset
  \/ \E i \in Runs, h \in HttpStatuses : FetchResponse(i, h)
  \/ \E i \in Runs : FetchReject(i)
  \/ \E i \in Runs, c \in CoreChunks : Read(i, c, MaxReads)
  \/ \E i \in Runs : ReadDone(i)
  \/ \E i \in Runs : ReadError(i)
  \/ \E i \in Runs : AbortSettle(i)

Spec == Init /\ [][Next]_vars

\* one run fed any sequence of records, one per read
FirstRun == runCount = 0 /\ run

NextEvents ==
  \/ FirstRun
  \/ FetchResponse(1, 200)
  \/ \E c \in EventChunks : ReadTraced(1, c, MaxEvents)
  \/ ReadDone(1)

SpecEvents == Init /\ [][NextEvents]_vars

\* one run fed any sequence of agent records, one per read
NextAgents ==
  \/ FirstRun
  \/ FetchResponse(1, 200)
  \/ \E c \in AgentChunks : ReadTraced(1, c, MaxEvents)
  \/ ReadDone(1)

SpecAgents == Init /\ [][NextAgents]_vars

\* one run whose response body is one of Bodies, delivered in chunks of any sizes
StreamRead ==
  \E b \in Bodies :
    /\ IsPrefix(received[1], b)
    /\ \E n \in 1..(Len(b) - Len(received[1])) :
         ReadTraced(1, SubSeq(b, Len(received[1]) + 1, Len(received[1]) + n), Len(b))

\* the body closes once it was delivered whole
StreamDone == (\E b \in Bodies : received[1] = b) /\ ReadDone(1)

NextStream ==
  \/ FirstRun
  \/ FetchResponse(1, 200)
  \/ StreamRead
  \/ StreamDone

SpecStream == Init /\ [][NextStream]_vars

\* a configuration setter: the updater is applied and the provider renders again
\* before the next event; nothing but the state and the callbacks is touched
SetterStep(next) ==
  /\ state' = next
  /\ closure' = Rerender(closure, next)
  /\ UNCHANGED <<abortRef, readerRef, runCount, pc, aborted, cancelled, buffer, nread,
                 tokensSeen, received, request, lastPoll>>

setPrompt(p) == SetterStep(setPromptState(state, p))
setUseRealModels(v) == SetterStep(setUseRealModelsState(state, v))
setProviderType(p) == SetterStep(setProviderTypeState(state, p))
setSelectedNode(info) == SetterStep(setSelectedNodeState(state, info))
setNodeConfig(nodeId, patch) == SetterStep(setNodeConfigState(state, nodeId, patch))
resetNodeConfig(nodeId) == SetterStep(resetNodeConfigState(state, nodeId))

\* one run, with configuration setters called at any time before and during it
NextConfig ==
  \/ \E p \in Prompts : setPrompt(p)
  \/ \E v \in BOOLEAN : setUseRealModels(v)
  \/ \E p \in ProviderTypes : setProviderType(p)
  \/ \E info \in SelectedNodes : setSelectedNode(info)
  \/ \E nodeId \in NodeIds, patch \in Patches : setNodeConfig(nodeId, patch)
  \/ \E nodeId \in NodeIds : resetNodeConfig(nodeId)
  \/ FirstRun
  \/ FetchResponse(1, 200)
  \/ Read(1, Frame("tok_r"), MaxConfigReads)

SpecConfig == Init /\ [][NextConfig]_vars

\* one discovery poll, from its two fetches to its setState or its catch
fetchStatus(prov, mod) ==
  /\ lastPoll' = <<PollClass(prov), PollClass(mod)>>
  /\ state' = IF PollThrows(prov, mod) THEN state
              ELSE pollSetState(state, PollData(prov), PollData(mod))
  /\ closure' = Rerender(closure, state')
  /\ UNCHANGED <<abortRef, readerRef, runCount, pc, aborted, cancelled, buffer, nread,
                 tokensSeen, received, request>>

\* one run that may be stopped or reset, with discovery polls at any time
NextPoll ==
  \/ \E prov \in ProviderOutcomes, mod \in ModelOutcomes : fetchStatus(prov, mod)
  \/ FirstRun
  \/ \E h \in HttpStatuses : FetchResponse(1, h)
  \/ \E c \in PollChunks : Read(1, c, MaxPollReads)
  \/ stop
  \/ reset
  \/ AbortSettle(1)

SpecPoll == Init /\ [][NextPoll]_vars

\* runs that create agent records, restarted or reset at any time
NextRecords ==
  \/ run
  \/ reset
  \/ \E i \in Runs : FetchResponse(i, 200)
  \/ \E i \in Runs, c \in RecordChunks : ReadTraced(i, c, MaxRecordReads)
  \/ \E i \in Runs : AbortSettle(i)

SpecRecords == Init /\ [][NextRecords]_vars

\* ------------------------------------------------------------- vocabulary
\* transports that are attached and neither closed nor aborted
Active == {i \in Runs : pc[i] \in {"fetch", "read"} /\ ~aborted[i] /\ ~cancelled[i]}

\* invocation i of run() took a step (its request or a read settled)
Stepped(i) == pc'[i] # pc[i] \/ nread'[i] # nread[i]

TerminalPc == {"closed", "failed", "abandoned"}

\* --------------------------------------------------------------- properties
\* C1: after any sequence of run(), stop() and reset() at most one transport is
\* non-aborted, and right after a run() call the only active transport is the
\* one that call created.
C1_AtMostOneTransport ==
  [][/\ Cardinality(Active') <= 1
     /\ (runCount' # runCount => Active' = {runCount'})]_vars

\* run() was called while the previous run's transport was still in flight
C1_Witness ==
  /\ runCount >= 2
  /\ pc[runCount - 1] \in {"fetch", "read"} /\ aborted[runCount - 1]
  /\ Active = {runCount}

\* C2: once a newer run() has started, no step of an earlier transport (a chunk
\* read, a failure, the settling of its abort) changes the pipeline state.
C2_OnlyNewestTransportMutates ==
  [][\A i \in Runs : (i < runCount /\ Stepped(i)) => state' = state]_vars

\* an earlier transport that had delivered frames returned on its abort while the
\* newest run's transport has applied frames of its own
C2_Witness ==
  \E i \in Runs :
    /\ i < runCount /\ pc[i] = "abandoned" /\ nread[i] > 0
    /\ pc[runCount] = "read" /\ nread[runCount] > 0 /\ ~aborted[runCount]
    /\ state.status = "running"

\* C3: stop() while running yields status stopped and error null, and from a
\* stopped state without error no later step (the aborted request or read
\* terminating included) sets an error.
C3_StopIsSilent ==
  [][/\ (state.status = "running" /\ stop) => (state'.status = "stopped" /\ state'.error = Null)
     /\ (state.status = "stopped" /\ state.error = Null) => state'.error = Null]_vars

\* stop() was called on a transport that had delivered frames, and its read has
\* since terminated
C3_Witness ==
  /\ runCount >= 1 /\ abortRef = runCount
  /\ pc[runCount] = "abandoned" /\ nread[runCount] > 0
  /\ state.status = "stopped" /\ state.error = Null

\* C4: status is running exactly when a transport is attached and neither closed
\* nor aborted.
C4_RunningIffLiveTransport == (state.status = "running") <=> (Active # {})

\* C5: the output of every agent that received agent_token events in this run is
\* the concatenation of their tokens in arrival order.
C5_OutputIsTokenConcatenation ==
  \A id \in DOMAIN tokensSeen :
    id \in DOMAIN state.agentMetrics /\ state.agentMetrics[id].output = tokensSeen[id]

\* C6: a run() call leaves status running, default metrics, zero totals and no
\* error, with its request still pending.
C6_RunResetsSynchronously ==
  [][runCount' # runCount =>
       /\ state'.status = "running"
       /\ state'.agentMetrics = defaultMetrics
       /\ state'.totalTokens = 0 /\ state'.totalMs = 0
       /\ state'.error = Null
       /\ pc'[runCount'] = "fetch"]_vars

\* run() was called again after an earlier run had changed metrics and ended
\* stopped with an error; its request is still pending
C6_Witness ==
  /\ runCount >= 2
  /\ pc[runCount] = "fetch" /\ ~aborted[runCount]
  /\ pc[runCount - 1] = "failed" /\ nread[runCount - 1] > 0
  /\ state.status = "running" /\ state.error = Null
  /\ state.agentMetrics = defaultMetrics

\* C7: once the newest run's transport has returned (closed, failed or aborted)
\* the pipeline is no longer running.
C7_ReturnedRunIsTerminal ==
  (runCount >= 1 /\ pc[runCount] \in TerminalPc) => state.status \in {"done", "stopped", "idle"}

\* C8: status changes only to running by run(), from running to done by a read
\* that applied pipeline_done, from running to stopped by stop() or a transport
\* step (pipeline_error or failure), and to idle by reset().
C8_StatusTransitions ==
  [][state'.status # state.status =>
       \/ state'.status = "running" /\ run
       \/ state'.status = "idle" /\ reset
       \/ state.status = "running" /\ state'.status = "done" /\ \E i \in Runs : nread'[i] # nread[i]
       \/ state.status = "running" /\ state'.status = "stopped"
            /\ (stop \/ \E i \in Runs : Stepped(i))]_vars

\* C9: a pipeline_error applied while running sets status stopped, error to the
\* event's message and activeParallelStage to null.
C9_PipelineError ==
  [][\A k \in {"perr", "perr0"} :
       (state.status = "running" /\ ReadChunk(1, Frame(k), MaxEvents)) =>
         /\ state'.status = "stopped"
         /\ state'.activeParallelStage = NullObj
         /\ (JsonTable[k].message # UndefinedStr => state'.error = JsonTable[k].message)]_vars

\* a pipeline_error with a message was applied after other frames
C9_Witness ==
  /\ pc[1] = "read" /\ nread[1] = MaxEvents
  /\ state.status = "stopped" /\ state.error = "model unavailable"
  /\ state.activeParallelStage = NullObj

\* C10: a rejected request, a non-OK response or a read error on the current
\* run's transport sets status stopped with an error string, and run() returns.
C10_TransportFailure ==
  [][\A i \in Runs :
       (i = runCount /\ (FetchReject(i) \/ ReadError(i)
                          \/ \E h \in HttpStatuses : ~ResponseOk(h) /\ FetchResponse(i, h))) =>
         /\ state'.status = "stopped"
         /\ state'.error # Null
         /\ pc'[i] = "failed"]_vars

\* the current run's transport failed before any byte, leaving an error
C10_Witness ==
  /\ runCount >= 1 /\ pc[runCount] = "failed" /\ nread[runCount] = 0 /\ readerRef # runCount
  /\ state.status = "stopped"
  /\ state.error = "Connection failed: Failed to fetch. Is the backend running?"

\* C11: reset() from any status sets status idle, agentMetrics to the defaults,
\* the totals to zero and error to null and leaves no transport active; no step
\* of an aborted transport changes the pipeline state afterwards.
C11_ResetClearsAndSilences ==
  [][/\ reset =>
          /\ state'.status = "idle"
          /\ state'.agentMetrics = defaultMetrics
          /\ state'.totalTokens = 0 /\ state'.totalMs = 0
          /\ state'.error = Null
          /\ Active' = {}
     /\ \A i \in Runs : (aborted[i] /\ Stepped(i)) => state' = state]_vars

\* reset() was called on a transport that had delivered frames, and its read has
\* since terminated without a trace
C11_Witness ==
  /\ runCount >= 1 /\ abortRef = runCount
  /\ pc[runCount] = "abandoned" /\ nread[runCount] > 0
  /\ state.status = "idle" /\ state.agentMetrics = defaultMetrics
  /\ state.totalTokens = 0 /\ state.totalMs = 0 /\ state.error = Null

\* C12: reset() is idempotent: what a second reset() would write (pipeline
\* state, abort signal, reader) is what the first one left: status idle, default
\* metrics, no active transport.
C12_ResetIdempotent ==
  [][reset =>
       /\ resetSetState(state') = state'
       /\ resetAbort(aborted', abortRef') = aborted'
       /\ CancelOf(cancelled', readerRef', resetAbort(aborted', abortRef')) = cancelled'
       /\ state'.status = "idle" /\ state'.agentMetrics = defaultMetrics
       /\ Active' = {}]_vars

\* reset() was called while the request or the read of the current run was pending
C12_Witness ==
  /\ runCount >= 1 /\ abortRef = runCount
  /\ pc[runCount] \in {"fetch", "read"} /\ aborted[runCount]
  /\ state.status = "idle" /\ Active = {}

\* C13: stop() leaves no transport active, and from then until the next run()
\* or reset() no read is applied and the pipeline state (status, agentMetrics,
\* totals, error included) does not change.
C13_StopEndsReads ==
  [][/\ stop => (Active' = {} /\ state'.status = "stopped")
     /\ (Active = {} /\ state.status = "stopped") =>
          (run \/ reset \/ (state' = state /\ nread' = nread /\ Active' = {}))]_vars

\* stop() was called while a read of a transport that had delivered frames was
\* pending and the aborted read has not settled yet
C13_Witness ==
  /\ runCount >= 1 /\ abortRef = runCount
  /\ pc[runCount] = "read" /\ nread[runCount] > 0 /\ aborted[runCount]
  /\ state.status = "stopped" /\ state.error = Null

\* C16: an agent_vram event whose agentId has no record in agentMetrics leaves
\* the pipeline state unchanged, and the read loop goes on.
C16_VramUnknownAgentNoOp ==
  [][\A k \in DOMAIN JsonTable :
       (/\ JsonTable[k].type = "agent_vram"
        /\ ~HasMetrics(state, JsonTable[k].agentId)
        /\ ReadChunk(1, Frame(k), MaxEvents)) =>
         (state' = state /\ pc'[1] = "read")]_vars

\* an agent_vram for an id without a record was read after a token of a known agent
C16_Witness ==
  /\ received[1] = Frame("tok_r") \o Frame("vram_c")
  /\ ~HasMetrics(state, "custom-1")
  /\ state.agentMetrics["router-1"].output = "Hi"

\* C17 as stated: an agent_token or agent_vram event for an id without a record
\* adds no key to agentMetrics; only agent_start adds one.
C17_OnlyStartAddsAgent ==
  [][\A k \in DOMAIN JsonTable :
       (ReadChunk(1, Frame(k), MaxEvents)
        /\ DOMAIN state'.agentMetrics # DOMAIN state.agentMetrics) =>
         JsonTable[k].type = "agent_start"]_vars

\* C17 as the code has it: an agent_vram event for an id without a record adds
\* no key; an agent_token event for such an id adds a record that starts from
\* the fallback record; no event other than agent_start and agent_token adds a
\* key, and no event removes one.
C17_StartAndTokenAddAgent ==
  [][\A k \in DOMAIN JsonTable :
       ReadChunk(1, Frame(k), MaxEvents) =>
         LET e == JsonTable[k]
         IN /\ DOMAIN state.agentMetrics \subseteq DOMAIN state'.agentMetrics
            /\ DOMAIN state'.agentMetrics # DOMAIN state.agentMetrics =>
                 /\ e.type \in {"agent_start", "agent_token"}
                 /\ DOMAIN state'.agentMetrics = DOMAIN state.agentMetrics \cup {e.agentId}
            /\ (e.type = "agent_token" /\ ~HasMetrics(state, e.agentId)) =>
                 /\ HasMetrics(state', e.agentId)
                 /\ state'.agentMetrics[e.agentId] =
                      [TokenFallbackMetrics EXCEPT !.tokens = NullishNum(e.totalTokens, 0),
                                                   !.tokensPerSec = NullishNum(e.tokensPerSec, 0),
                                                   !.output = NullishStr(e.token, "")]]_vars

\* the first frame of the stream was an agent_token for an id without a record
C17_Witness ==
  /\ received[1] = Frame("tok_c")
  /\ HasMetrics(state, "custom-1")
  /\ state.agentMetrics["custom-1"].output = "Yo"

\* C14: a line that does not start with "data: ", a data line whose payload is
\* not valid JSON and a record of an unknown type leave the pipeline state as it
\* was and do not end the read loop: while the dropped lines of JunkBody arrive
\* the state is the one its first record left, and the valid record that follows
\* them is applied.
C14_BadLinesDropped ==
  (pc[1] \in {"read", "closed"} /\ IsPrefix(received[1], JunkBody)) =>
    LET fresh == runSetState(InitialState)
        started == handleEvent(fresh, JsonTable["start_r"])
        n == Len(received[1])
    IN /\ n < Len(Frame("start_r")) - 1 => state = fresh
       /\ (n >= Len(Frame("start_r")) - 1 /\ n < Len(JunkBody) - 1) => state = started
       /\ n >= Len(JunkBody) - 1 => state = handleEvent(started, JsonTable["tok_r"])
       /\ n < Len(JunkBody) => pc[1] = "read"

\* JunkBody was delivered whole in three chunks or more and its last record shows
C14_Witness ==
  /\ received[1] = JunkBody /\ nread[1] >= 3
  /\ state.status = "running" /\ state.error = Null
  /\ state.agentMetrics["router-1"] =
       [IdleMetrics EXCEPT !.status = "running", !.provider = "ollama", !.tokens = 1,
                           !.tokensPerSec = 5, !.output = "Hi"]

\* C15: however the response body is cut into chunks, the pipeline state is the
\* one obtained by applying, in order and once each, the newline-terminated
\* lines of the text received so far, and the buffer is the text after the last
\* newline.
C15_ChunkingIndependent ==
  pc[1] \in {"read", "closed"} =>
    LET parts == Split(received[1])
    IN /\ state = ApplyLines(runSetState(InitialState), SubSeq(parts, 1, Len(parts) - 1))
       /\ buffer[1] = parts[Len(parts)]

\* a chunk ended inside a line after a record had been applied
C15_Witness ==
  /\ pc[1] = "read" /\ nread[1] >= 2
  /\ buffer[1] # <<>> /\ buffer[1] # received[1]
  /\ state.agentMetrics["router-1"].output = "Hi"

\* C18: a fresh run that receives agent_start{router-1}, agent_token{router-1,
\* "Hi", 1, 5}, agent_done{router-1, 1, 5, 120, 2.1} and pipeline_done{1, 120}
\* ends with status done, router-1 = {done, tokens 1, tokensPerSec 5, latencyMs
\* 120, vramGb 2.1, output "Hi"}, totalTokens 1 and totalMs 120.
C18_Scenario ==
  received[1] = ScenarioBody =>
    /\ state.status = "done"
    /\ state.agentMetrics["router-1"] =
         [status |-> "done", tokens |-> 1, tokensPerSec |-> 5, latencyMs |-> 120,
          vramGb |-> 21, output |-> "Hi", provider |-> "simulation"]
    /\ \A id \in DEFAULT_AGENT_IDS \ {"router-1"} : state.agentMetrics[id] = IdleMetrics
    /\ DOMAIN state.agentMetrics = DEFAULT_AGENT_IDS
    /\ state.totalTokens = 1 /\ state.totalMs = 120
    /\ state.error = Null

\* the scenario's body was delivered whole and the stream closed
C18_Witness ==
  /\ received[1] = ScenarioBody /\ pc[1] = "closed"
  /\ state.status = "done" /\ state.totalMs = 120

\* some configuration setter is called
AnySetter ==
  \/ \E p \in Prompts : setPrompt(p)
  \/ \E v \in BOOLEAN : setUseRealModels(v)
  \/ \E p \in ProviderTypes : setProviderType(p)
  \/ \E info \in SelectedNodes : setSelectedNode(info)
  \/ \E nodeId \in NodeIds, patch \in Patches : setNodeConfig(nodeId, patch)
  \/ \E nodeId \in NodeIds : resetNodeConfig(nodeId)

\* C19: the request run() sends carries the prompt, useRealModels, default
\* provider and per-node configs the state holds when run() is called; a request
\* once sent never changes, and a setter call changes neither status,
\* agentMetrics, the totals nor error.
C19_RequestFromCurrentConfig ==
  [][/\ runCount' # runCount =>
          LET r == request'[runCount']
              nc == state.nodeConfigs
          IN /\ r.prompt = state.prompt
             /\ r.use_real_models = state.useRealModels
             /\ r.default_provider = [type |-> state.providerType]
             /\ IF DOMAIN nc = {} THEN r.agent_configs = UndefinedObj
                ELSE /\ DOMAIN r.agent_configs = DOMAIN nc
                     /\ \A id \in DOMAIN nc :
                          /\ r.agent_configs[id].agent_id = id
                          /\ r.agent_configs[id].provider.type = nc[id].provider
                          /\ r.agent_configs[id].max_tokens = nc[id].maxTokens
                          /\ r.agent_configs[id].temperature = nc[id].temperature
                          /\ (r.agent_configs[id].tools = <<"web_search">>) <=>
                               (nc[id].tools # UndefinedObj /\ nc[id].tools.web_search)
     /\ \A i \in Runs : request[i] # NoRequest => request'[i] = request[i]
     /\ AnySetter =>
          /\ state'.status = state.status
          /\ state'.agentMetrics = state.agentMetrics
          /\ state'.totalTokens = state.totalTokens /\ state'.totalMs = state.totalMs
          /\ state'.error = state.error
          /\ request' = request]_vars

\* run() was called after the prompt and a node's config had been set, and the
\* prompt and that node's config were changed again while the run was streaming
C19_Witness ==
  /\ pc[1] = "read" /\ nread[1] = 1 /\ state.status = "running"
  /\ request[1].prompt = "Summarise the release notes"
  /\ request[1].agent_configs # UndefinedObj
  /\ DOMAIN request[1].agent_configs = {"router-1"}
  /\ request[1].agent_configs["router-1"].max_tokens = 64
  /\ state.prompt # request[1].prompt
  /\ "router-1" \notin DOMAIN state.nodeConfigs
  /\ state.agentMetrics["router-1"].output = "Hi"

\* the fields of the pipeline state other than the given ones are unchanged
OnlyFieldsChange(fields) ==
  /\ DOMAIN state' = DOMAIN state
  /\ \A f \in DOMAIN state \ fields : state'[f] = state[f]

\* the entries of nodeConfigs other than nodeId's are unchanged
OnlyNodeChanges(nodeId) ==
  /\ DOMAIN state'.nodeConfigs \ {nodeId} = DOMAIN state.nodeConfigs \ {nodeId}
  /\ \A k \in DOMAIN state.nodeConfigs \ {nodeId} : state'.nodeConfigs[k] = state.nodeConfigs[k]

\* the refs, the transports and the requests sent are unchanged
TransportUnchanged ==
  UNCHANGED <<abortRef, readerRef, runCount, pc, aborted, cancelled, buffer, nread, request>>

\* C20: each configuration setter changes only its own field of the state (the
\* node-config setters only the entry of the given nodeId) and leaves status,
\* agentMetrics, the totals, error, activeParallelStage and the transport as
\* they were.
C20_SettersArePure ==
  [][/\ \A p \in Prompts :
          setPrompt(p) =>
            (OnlyFieldsChange({"prompt"}) /\ state'.prompt = p /\ TransportUnchanged)
     /\ \A v \in BOOLEAN :
          setUseRealModels(v) =>
            (OnlyFieldsChange({"useRealModels"}) /\ state'.useRealModels = v /\ TransportUnchanged)
     /\ \A p \in ProviderTypes :
          setProviderType(p) =>
            (OnlyFieldsChange({"providerType"}) /\ state'.providerType = p /\ TransportUnchanged)
     /\ \A info \in SelectedNodes :
          setSelectedNode(info) =>
            (OnlyFieldsChange({"selectedNode"}) /\ state'.selectedNode = info /\ TransportUnchanged)
     /\ \A nodeId \in NodeIds, patch \in Patches :
          setNodeConfig(nodeId, patch) =>
            /\ OnlyFieldsChange({"nodeConfigs"}) /\ OnlyNodeChanges(nodeId)
            /\ nodeId \in DOMAIN state'.nodeConfigs
            /\ TransportUnchanged
     /\ \A nodeId \in NodeIds :
          resetNodeConfig(nodeId) =>
            /\ OnlyFieldsChange({"nodeConfigs"}) /\ OnlyNodeChanges(nodeId)
            /\ nodeId \notin DOMAIN state'.nodeConfigs
            /\ TransportUnchanged]_vars

\* both nodes were configured while the run was streaming: each entry is the
\* node's defaults overlaid with the patch
C20_Witness ==
  /\ pc[1] = "read" /\ nread[1] = 1 /\ state.status = "running"
  /\ request[1].agent_configs = UndefinedObj
  /\ DOMAIN state.nodeConfigs = {"router-1", "custom-1"}
  /\ state.nodeConfigs["router-1"].maxTokens = 64
  /\ state.nodeConfigs["router-1"].tools = [web_search |-> TRUE]
  /\ state.nodeConfigs["router-1"].modelId = "Qwen2.5-3B-Instruct"
  /\ state.nodeConfigs["custom-1"].temperature = 7
  /\ state.agentMetrics["router-1"].output = "Hi"

\* C21 as stated: a poll in which a request is rejected, times out or is
\* answered with a non-OK response leaves providerStatus and availableModels as
\* they were and raises no error.
C21_FailedPollChangesNothing ==
  [][\A prov \in ProviderOutcomes, mod \in ModelOutcomes :
       (fetchStatus(prov, mod) /\ (~OkResponse(prov) \/ ~OkResponse(mod))) =>
         /\ state'.providerStatus = state.providerStatus
         /\ state'.availableModels = state.availableModels
         /\ state'.error = state.error]_vars

\* C21 as the code has it: a poll in which a request is rejected or times out
\* changes nothing; a non-OK response leaves the field it feeds (providerStatus
\* for /api/providers, availableModels for /api/models) as it was, while the
\* other field is still refreshed from its own OK response; no poll changes
\* status or error.
C21_FailedRequestKeepsItsField ==
  [][\A prov \in ProviderOutcomes, mod \in ModelOutcomes :
       fetchStatus(prov, mod) =>
         /\ (prov.settle # "response" \/ mod.settle # "response") => state' = state
         /\ ~OkResponse(prov) => state'.providerStatus = state.providerStatus
         /\ ~OkResponse(mod) => state'.availableModels = state.availableModels
         /\ state'.error = state.error /\ state'.status = state.status]_vars

\* the backend went offline after a poll had found providers and models: the
\* latest poll was rejected and what was known is still there
C21_Witness ==
  /\ lastPoll = <<"rejected", "rejected">>
  /\ state.providerStatus.ollama /\ state.providerStatus.transformers
  /\ state.availableModels = [ollama |-> <<"llama3">>]
  /\ state.error = Null

\* C22: a poll result applied in any pipeline status changes only
\* providerStatus and availableModels (never status, agentMetrics, the totals,
\* error or the transport); run() can be called and sets status running
\* whatever providerStatus holds.
C22_DiscoveryIndependentOfRun ==
  [][/\ \A prov \in ProviderOutcomes, mod \in ModelOutcomes :
          fetchStatus(prov, mod) =>
            (OnlyFieldsChange({"providerStatus", "availableModels"}) /\ TransportUnchanged)
     /\ runCount = 0 => ENABLED FirstRun
     /\ FirstRun =>
          /\ state'.status = "running"
          /\ state'.providerStatus = state.providerStatus
          /\ Active' = {1}]_vars

\* a poll that found providers and models was applied while the run was
\* streaming
C22_Witness ==
  /\ pc[1] = "read" /\ nread[1] = 1 /\ state.status = "running"
  /\ lastPoll = <<"ok", "ok">>
  /\ state.providerStatus.ollama /\ ~state.providerStatus.llamacpp
  /\ state.availableModels = [ollama |-> <<"llama3">>]
  /\ state.agentMetrics["router-1"].output = "Hi"

\* the kinds of record a read of Spec may deliver
CoreKeys == {k \in DOMAIN JsonTable : Frame(k) \in CoreChunks}

\* C23: activeParallelStage is null initially and is written only by three
\* events: stage_parallel sets it to the event's stage, pipeline_done and
\* pipeline_error set it to null; so it is non-null only after a stage_parallel
\* that none of the three has superseded.
C23_ParallelStageWriters ==
  [][/\ \A i \in Runs, k \in CoreKeys :
          ReadChunk(i, Frame(k), MaxReads) =>
            LET e == JsonTable[k]
            IN /\ e.type = "stage_parallel" =>
                    state'.activeParallelStage =
                      [stageIndex |-> e.stageIndex, agentIds |-> e.agentIds]
               /\ e.type \in {"pipeline_done", "pipeline_error"} =>
                    state'.activeParallelStage = NullObj
               /\ e.type \notin {"stage_parallel", "pipeline_done", "pipeline_error"} =>
                    state'.activeParallelStage = state.activeParallelStage
     /\ state'.activeParallelStage # state.activeParallelStage =>
          \E i \in Runs, k \in CoreKeys : ReadChunk(i, Frame(k), MaxReads)]_vars

\* a stage_parallel was the last frame applied
C23_Witness ==
  /\ runCount >= 1 /\ pc[runCount] = "read" /\ nread[runCount] = MaxReads
  /\ state.status = "running"
  /\ state.activeParallelStage = [stageIndex |-> 1, agentIds |-> <<"coder-1", "analyzer-1">>]

\* C24: totalTokens and totalMs change only when a pipeline_done sets them to
\* its totals or when run() or reset() zeroes them; whenever status is running
\* both are 0.
C24_TotalsOnlyAfterDone ==
  [][/\ \A i \in Runs, k \in CoreKeys :
          (ReadChunk(i, Frame(k), MaxReads) /\ JsonTable[k].type = "pipeline_done") =>
            /\ state'.totalTokens = NullishNum(JsonTable[k].totalPipelineTokens, state.totalTokens)
            /\ state'.totalMs = NullishNum(JsonTable[k].totalPipelineMs, state.totalMs)
     /\ (state'.totalTokens # state.totalTokens \/ state'.totalMs # state.totalMs) =>
          \/ (run \/ reset) /\ state'.totalTokens = 0 /\ state'.totalMs = 0
          \/ \E i \in Runs, k \in CoreKeys :
               ReadChunk(i, Frame(k), MaxReads) /\ JsonTable[k].type = "pipeline_done"
     /\ (run \/ reset) => (state'.totalTokens = 0 /\ state'.totalMs = 0)
     /\ state'.status = "running" => (state'.totalTokens = 0 /\ state'.totalMs = 0)]_vars

\* a pipeline_done followed tokens of an agent: the totals are its totals
C24_Witness ==
  /\ runCount >= 1 /\ nread[runCount] = MaxReads
  /\ state.status = "done" /\ state.totalTokens = 1 /\ state.totalMs = 120
  /\ state.agentMetrics["router-1"].output = "Hi"

\* the records of the agents other than id are unchanged, and so is every field
\* of the pipeline state other than agentMetrics
OnlyAgentChanges(id) ==
  /\ OnlyFieldsChange({"agentMetrics"})
  /\ DOMAIN state'.agentMetrics \ {id} = DOMAIN state.agentMetrics \ {id}
  /\ \A a \in DOMAIN state.agentMetrics \ {id} : state'.agentMetrics[a] = state.agentMetrics[a]

\* C25: an agent_done for an agent that has a record sets its status to done,
\* overwrites tokens, tokensPerSec, latencyMs, vramGb and provider with the
\* values the event carries, keeps the prior value of each of them the event
\* does not carry, and leaves output (and everything else) unchanged.
C25_AgentDone ==
  [][\A k \in DOMAIN JsonTable :
       (/\ JsonTable[k].type = "agent_done"
        /\ HasMetrics(state, JsonTable[k].agentId)
        /\ ReadChunk(1, Frame(k), MaxEvents)) =>
         LET e == JsonTable[k]
             prev == state.agentMetrics[e.agentId]
             next == state'.agentMetrics[e.agentId]
         IN /\ next.status = "done"
            /\ next.tokens = (IF e.totalTokens # UndefinedNum THEN e.totalTokens ELSE prev.tokens)
            /\ next.tokensPerSec =
                 (IF e.tokensPerSec # UndefinedNum THEN e.tokensPerSec ELSE prev.tokensPerSec)
            /\ next.latencyMs = (IF e.latencyMs # UndefinedNum THEN e.latencyMs ELSE prev.latencyMs)
            /\ next.vramGb = (IF e.vramGb # UndefinedNum THEN e.vramGb ELSE prev.vramGb)
            /\ next.provider = (IF e.provider # UndefinedStr THEN e.provider ELSE prev.provider)
            /\ next.output = prev.output
            /\ OnlyAgentChanges(e.agentId)]_vars

\* an agent_done that carries a provider and a rate but no totals was applied
\* after a token and a vram report of the same agent
C25_Witness ==
  /\ received[1] = Frame("tok_r") \o Frame("vram_r") \o Frame("done_rp")
  /\ state.agentMetrics["router-1"] =
       [status |-> "done", tokens |-> 1, tokensPerSec |-> 9, latencyMs |-> 0,
        vramGb |-> 35, output |-> "Hi", provider |-> "ollama"]

\* C27: an agent_start sets the agent's status to running and its provider (the
\* event's, or simulation) and nothing else: the agent's tokens, tokensPerSec,
\* latencyMs, vramGb and output, every other agent's record and the pipeline
\* status are as before.
C27_AgentStartPreserves ==
  [][\A k \in DOMAIN JsonTable :
       (JsonTable[k].type = "agent_start" /\ ReadChunk(1, Frame(k), MaxEvents)) =>
         LET e == JsonTable[k]
             prev == IF HasMetrics(state, e.agentId)
                       THEN state.agentMetrics[e.agentId] ELSE EmptyMetrics
             next == state'.agentMetrics[e.agentId]
         IN /\ next.status = "running"
            /\ next.provider = (IF e.provider # UndefinedStr THEN e.provider ELSE "simulation")
            /\ next.tokens = prev.tokens /\ next.tokensPerSec = prev.tokensPerSec
            /\ next.latencyMs = prev.latencyMs /\ next.vramGb = prev.vramGb
            /\ next.output = prev.output
            /\ state'.status = state.status
            /\ OnlyAgentChanges(e.agentId)]_vars

\* an agent_start arrived for an agent that had finished with output and counters
C27_Witness ==
  /\ received[1] = Frame("tok_r") \o Frame("done_r") \o Frame("start_r")
  /\ state.agentMetrics["router-1"] =
       [status |-> "running", tokens |-> 1, tokensPerSec |-> 5, latencyMs |-> 120,
        vramGb |-> 21, output |-> "Hi", provider |-> "ollama"]

\* the events of the complete lines of a text, in order
RECURSIVE EventsOf(_)
EventsOf(lines) ==
  IF lines = <<>> THEN <<>> ELSE LineEvents(Head(lines)) \o EventsOf(Tail(lines))

\* the events invocation 1 has been handed so far
Arrived == LET parts == Split(received[1]) IN EventsOf(SubSeq(parts, 1, Len(parts) - 1))

\* the totalTokens and tokensPerSec last carried by an agent_token or agent_done
\* of agent id among the events evs; with onlyKnown, an agent_done that arrives
\* while the agent has no record (no default, no earlier agent_start or
\* agent_token) is left out
RECURSIVE LastCarried(_, _, _, _)
LastCarried(acc, evs, id, onlyKnown) ==
  IF evs = <<>> THEN acc
  ELSE LET e == Head(evs)
           counts == e.agentId = id
                       /\ (e.type = "agent_token"
                             \/ (e.type = "agent_done" /\ (acc.known \/ ~onlyKnown)))
           next == [known |-> acc.known \/ (e.agentId = id /\ e.type \in {"agent_start", "agent_token"}),
                    tokens |-> IF counts /\ e.totalTokens # UndefinedNum
                                 THEN e.totalTokens ELSE acc.tokens,
                    tokensPerSec |-> IF counts /\ e.tokensPerSec # UndefinedNum
                                       THEN e.tokensPerSec ELSE acc.tokensPerSec]
       IN LastCarried(next, Tail(evs), id, onlyKnown)

NothingCarried(id) ==
  [known |-> id \in DEFAULT_AGENT_IDS, tokens |-> UndefinedNum, tokensPerSec |-> UndefinedNum]

\* the agent ids the events of the model name
AgentIds == DEFAULT_AGENT_IDS \cup {"custom-1"}

\* C26 as stated: after any sequence of agent_token and agent_done events of an
\* agent, its tokens and tokensPerSec are the totalTokens and tokensPerSec of the
\* last of these events that carried them.
C26_LastCarriedWins ==
  pc[1] \in {"read", "closed"} =>
    \A id \in AgentIds :
      LET last == LastCarried(NothingCarried(id), Arrived, id, FALSE)
          onlyTokenAndDone ==
            \A n \in 1..Len(Arrived) :
              Arrived[n].agentId = id => Arrived[n].type \in {"agent_token", "agent_done"}
      IN (HasMetrics(state, id) /\ onlyTokenAndDone) =>
           /\ last.tokens # UndefinedNum => state.agentMetrics[id].tokens = last.tokens
           /\ last.tokensPerSec # UndefinedNum =>
                state.agentMetrics[id].tokensPerSec = last.tokensPerSec

\* C26 as the code has it: the same, counting only the events that arrive while
\* the agent has a record (an agent_done for an id without a record is dropped).
C26_LastAppliedWins ==
  pc[1] \in {"read", "closed"} =>
    \A id \in AgentIds :
      LET last == LastCarried(NothingCarried(id), Arrived, id, TRUE)
      IN /\ (last.tokens # UndefinedNum \/ last.tokensPerSec # UndefinedNum) =>
              HasMetrics(state, id)
         /\ last.tokens # UndefinedNum => state.agentMetrics[id].tokens = last.tokens
         /\ last.tokensPerSec # UndefinedNum =>
              state.agentMetrics[id].tokensPerSec = last.tokensPerSec

\* an agent_done carrying only a rate followed a token of the same agent, with a
\* token of another agent in between
C26_Witness ==
  /\ received[1] = Frame("tok_r") \o Frame("tok_c") \o Frame("done_rp")
  /\ state.agentMetrics["router-1"].tokens = 1
  /\ state.agentMetrics["router-1"].tokensPerSec = 9
  /\ state.agentMetrics["custom-1"].tokens = 2
  /\ state.agentMetrics["custom-1"].tokensPerSec = 7

\* C30: an agent_token for an id without a record is applied to a freshly built
\* record: afterwards the id has a record whose output is the event's token,
\* whose tokens and tokensPerSec are the event's (0 where it carries none) and
\* whose latencyMs and vramGb are 0.
C30_TokenFallback ==
  [][\A k \in DOMAIN JsonTable :
       (/\ JsonTable[k].type = "agent_token"
        /\ ~HasMetrics(state, JsonTable[k].agentId)
        /\ ReadChunk(1, Frame(k), MaxEvents)) =>
         LET e == JsonTable[k]
         IN /\ HasMetrics(state', e.agentId)
            /\ LET next == state'.agentMetrics[e.agentId]
               IN /\ next.output = (IF e.token # UndefinedStr THEN e.token ELSE "")
                  /\ next.tokens = (IF e.totalTokens # UndefinedNum THEN e.totalTokens ELSE 0)
                  /\ next.tokensPerSec =
                       (IF e.tokensPerSec # UndefinedNum THEN e.tokensPerSec ELSE 0)
                  /\ next.latencyMs = 0 /\ next.vramGb = 0
                  /\ next.status = "running" /\ next.provider = "simulation"
            /\ OnlyAgentChanges(e.agentId)]_vars

\* a token without counters was the first frame of an id that had no record
C30_Witness ==
  /\ received[1] = Frame("tok_r") \o Frame("tok_c0")
  /\ state.agentMetrics["custom-1"] = [TokenFallbackMetrics EXCEPT !.output = "?"]

\* C28: an event that omits a field leaves the state field it feeds defined:
\* the fields of the agent's record that were defined stay defined, an announced
\* parallel stage has a stageIndex and agentIds, and the totals and the error are
\* defined.
C28_OmittedFieldsHaveDefaults ==
  [][\A k \in DOMAIN JsonTable :
       ReadChunk(1, Frame(k), MaxEvents) =>
         LET e == JsonTable[k]
         IN /\ (HasMetrics(state, e.agentId) /\ HasMetrics(state', e.agentId)) =>
                 LET prev == state.agentMetrics[e.agentId]
                     next == state'.agentMetrics[e.agentId]
                 IN /\ prev.tokens # UndefinedNum => next.tokens # UndefinedNum
                    /\ prev.tokensPerSec # UndefinedNum => next.tokensPerSec # UndefinedNum
                    /\ prev.latencyMs # UndefinedNum => next.latencyMs # UndefinedNum
                    /\ prev.vramGb # UndefinedNum => next.vramGb # UndefinedNum
                    /\ prev.provider # UndefinedStr => next.provider # UndefinedStr
                    /\ prev.output # UndefinedStr => next.output # UndefinedStr
            /\ state'.activeParallelStage # NullObj =>
                 /\ state'.activeParallelStage.stageIndex # UndefinedNum
                 /\ state'.activeParallelStage.agentIds # UndefinedArr
            /\ state'.totalTokens # UndefinedNum /\ state'.totalMs # UndefinedNum
            /\ state'.error # UndefinedStr]_vars

\* C29: outside run() and reset() the key set of agentMetrics never loses an
\* element; run() and reset() replace agentMetrics by the idle, zeroed records
\* of exactly the default agent ids; the default ids are keys in every state.
C29_RecordsNeverDeleted ==
  [][/\ (run \/ reset) => state'.agentMetrics = defaultMetrics
     /\ ~(run \/ reset) => DOMAIN state.agentMetrics \subseteq DOMAIN state'.agentMetrics
     /\ DEFAULT_AGENT_IDS \subseteq DOMAIN state'.agentMetrics
     /\ \A id \in DEFAULT_AGENT_IDS : defaultMetrics[id] = IdleMetrics]_vars

\* the first run created a record for an id outside the defaults and finished a
\* default agent; the second run() replaced the records by the defaults
C29_Witness ==
  /\ runCount = 2 /\ state.status = "running"
  /\ received[1] = Frame("tok_c") \o Frame("done_r")
  /\ state.agentMetrics = defaultMetrics

\* the error texts the catch of run() can store for a connection that was never
\* established, and for a stream that broke while it was being read
ConnectErrors == {catchError(state, "TypeError", m).error : m \in FetchRejectMessages}
StreamErrors == {catchError(state, "TypeError", m).error : m \in ReadRejectMessages}

\* C31: the error stored when the connection cannot be established is never an
\* error the catch stores for a stream that fails after frames were read, and
\* the other way round.
C31_FailureCauseDistinguishable ==
  [][\A i \in Runs :
       /\ FetchReject(i) => state'.error \notin StreamErrors
       /\ (ReadError(i) /\ nread[i] > 0) => state'.error \notin ConnectErrors]_vars

\* C32: in every state with status running, error is null; only run() sets
\* running, and every step that stores an error sets status stopped.
C32_RunningHasNoError ==
  [][/\ state'.status = "running" => state'.error = Null
     /\ (state.status # "running" /\ state'.status = "running") => run
     /\ (state'.error # state.error /\ state'.error # Null) => state'.status = "stopped"]_vars

\* the first run failed at the transport and a second run() is now running
C32_Witness ==
  /\ runCount = 2 /\ pc[1] = "failed" /\ pc[2] = "fetch"
  /\ state.status = "running" /\ state.error = Null

\* C33: in every state with status done, error is null: a run that reported
\* pipeline_error is not shown as done by a later frame of the same stream.
C33_DoneHasNoError == state.status = "done" => state.error = Null

\* C34: immediately after run() and after reset() activeParallelStage is null.
C34_StageClearedByRunAndReset ==
  [][(run \/ reset) => state'.activeParallelStage = NullObj]_vars

\* C35: every record of agentMetrics is well-formed in every state: status,
\* tokens, tokensPerSec, latencyMs, vramGb, output and provider are defined and
\* tokens is not negative, also for an id first introduced by agent_start.
C35_RecordsWellFormed ==
  \A id \in DOMAIN state.agentMetrics :
    LET m == state.agentMetrics[id]
    IN /\ m.status # UndefinedStr /\ m.provider # UndefinedStr /\ m.output # UndefinedStr
       /\ m.tokens # UndefinedNum /\ m.tokens >= 0
       /\ m.tokensPerSec # UndefinedNum /\ m.latencyMs # UndefinedNum
       /\ m.vramGb # UndefinedNum

\* C36: whenever status is idle the run state is pristine: agentMetrics is the
\* default idle records, totalTokens and totalMs are 0 and error is null.
C36_IdleIsPristine ==
  state.status = "idle" =>
    /\ state.agentMetrics = defaultMetrics
    /\ state.totalTokens = 0 /\ state.totalMs = 0
    /\ state.error = Null

\* a run that had delivered frames was reset: the pipeline is idle again while
\* the aborted request has not settled yet
C36_Witness ==
  /\ state.status = "idle" /\ runCount = 1
  /\ pc[1] = "read" /\ nread[1] > 0 /\ aborted[1]

\* C37: stop() changes status only: agentMetrics, the totals, error,
\* activeParallelStage and the configuration fields are as before, in whatever
\* status stop() is called.
C37_StopChangesOnlyStatus ==
  [][stop => /\ state'.status = "stopped"
             /\ OnlyFieldsChange({"status"})
             /\ abortRef' = abortRef /\ readerRef' = readerRef]_vars

\* stop() was called while a parallel stage was announced and an agent had
\* produced output
C37_Witness ==
  /\ state.status = "stopped" /\ runCount = 1 /\ aborted[1]
  /\ state.activeParallelStage # NullObj
  /\ state.agentMetrics["router-1"].output = "Hi"
  /\ state.error = Null

\* C38: an agent_done whose agentId has no record in agentMetrics leaves the
\* state as it was: no record is created.
C38_DoneWithoutRecordIsNoOp ==
  [][\A k \in DOMAIN JsonTable :
       (/\ JsonTable[k].type = "agent_done"
        /\ ~HasMetrics(state, JsonTable[k].agentId)
        /\ ReadChunk(1, Frame(k), MaxEvents)) =>
         /\ state' = state
         /\ ~HasMetrics(state', JsonTable[k].agentId)]_vars

\* an agent_done for an id without a record arrived after another agent's token
C38_Witness ==
  /\ received[1] = Frame("tok_r") \o Frame("done_c")
  /\ DOMAIN state.agentMetrics = DEFAULT_AGENT_IDS
  /\ state.agentMetrics["router-1"].output = "Hi"

\* C39: when the stream closes the text left in the buffer is not parsed: the
\* close changes nothing, and the state is the one the newline-terminated lines
\* of the received text give, so a record whose line was not ended by a newline
\* is not applied.
C39_ResidualDiscarded ==
  [][ReadDone(1) =>
       LET parts == Split(received[1])
       IN /\ state' = state
          /\ state' = ApplyLines(runSetState(InitialState), SubSeq(parts, 1, Len(parts) - 1))
          /\ buffer'[1] = parts[Len(parts)]]_vars

\* the stream closed with an unterminated pipeline_done line in the buffer: the
\* token before it shows, the pipeline is still running
C39_Witness ==
  /\ pc[1] = "closed" /\ received[1] = CutBody
  /\ buffer[1] = DataPrefix \o <<"{", "pdone", "}">>
  /\ state.status = "running" /\ state.totalTokens = 0
  /\ state.agentMetrics["router-1"].output = "Hi"

====
